---- MODULE Spec2Model ----
(***************************************************************************)
(* A model of the wind turbine power optimizer: the data cleaner           *)
(* (process_data), the metrics comparator (calculate_metrics), the power   *)
(* model (power_model) and the optimizer (optimize_power).                 *)
(*                                                                         *)
(* Numbers are exact rationals <<n, d>> in lowest terms with d > 0, with   *)
(* the IEEE special values of the floating-point columns kept apart:       *)
(* NaN = <<0, 0>>, +inf = <<1, 0>>, -inf = <<-1, 0>>, and the two zeros     *)
(* +0.0 = <<0, 1>> and -0.0 = <<0, -1>>.  A missing cell of a table is NaN, *)
(* as in pandas.                                                           *)
(***************************************************************************)
EXTENDS Integers, Sequences, FiniteSets, TLC

VARIABLES
    pc,          \* position of the run: which call comes next
    raw,         \* the table handed to process_data
    once,        \* process_data(raw)
    twice,       \* process_data(process_data(raw))
    data,        \* the dataset handed to power_model / optimize_power / calculate_metrics
    args,        \* the remaining arguments of the call under study
    out          \* what the call produced

vars == <<pc, raw, once, twice, data, args, out>>

None == [kind |-> "none"]

----------------------------------------------------------------------------
(* Bounds of the model *)

\* Rows of a raw table
MaxLen == 3

\* Rows of a raw table with a timestamp column or without a wind_speed column,
\* and of a dataset of the comparator, the power model and the optimizer
MaxRows == 2

----------------------------------------------------------------------------
(* Floating-point values as exact rationals with NaN and the infinities *)

NaN == <<0, 0>>

IsNaN(x) == x[1] = 0 /\ x[2] = 0
IsFinite(x) == x[2] # 0
IsZero(x) == x[1] = 0 /\ x[2] # 0

\* The sign bit: set for the negative values, -inf and -0.0
Negative(x) == x[1] < 0 \/ (x[1] = 0 /\ x[2] < 0)

Zero(negative) == IF negative THEN <<0, -1>> ELSE <<0, 1>>
Inf(negative) == IF negative THEN <<-1, 0>> ELSE <<1, 0>>

\* The value without the sign of a zero, for the exact arithmetic
Mag(x) == IF IsZero(x) THEN <<0, 1>> ELSE x

AbsInt(n) == IF n < 0 THEN -n ELSE n

RECURSIVE GCD(_, _)
GCD(a, b) == IF b = 0 THEN a ELSE GCD(b, a % b)

Sign(n) == IF n > 0 THEN 1 ELSE IF n < 0 THEN -1 ELSE 0

\* n/d in lowest terms (d > 0)
Norm(n, d) ==
    LET g == GCD(AbsInt(n), d)
    IN  <<n \div g, d \div g>>

R(n) == <<n, 1>>
Q(n, d) == Norm(n, d)

\* a + b of finite values, through the least common denominator; a sum that
\* is zero is +0.0 unless both terms are -0.0
RAddFinite(a, b) ==
    LET x == Mag(a)
        y == Mag(b)
        g == GCD(x[2], y[2])
        sum == Norm(x[1] * (y[2] \div g) + y[1] * (x[2] \div g), (x[2] \div g) * y[2])
    IN  IF sum[1] = 0 THEN Zero(Negative(a) /\ Negative(b)) ELSE sum

\* -a: the sign bit flips, also that of a zero
RNeg(a) == IF IsZero(a) THEN <<0, -a[2]>> ELSE <<-a[1], a[2]>>

RAdd(a, b) ==
    IF IsNaN(a) \/ IsNaN(b) THEN NaN
    ELSE IF IsFinite(a) /\ IsFinite(b) THEN RAddFinite(a, b)
    ELSE IF IsFinite(a) THEN b
    ELSE IF IsFinite(b) THEN a
    ELSE IF a = b THEN a ELSE NaN

RSub(a, b) == RAdd(a, RNeg(b))

\* a * b, cancelling across before multiplying; the sign of the product is
\* the exclusive or of the signs, also for a zero or an infinite product
RMul(a, b) ==
    IF IsNaN(a) \/ IsNaN(b) THEN NaN
    ELSE IF IsFinite(a) /\ IsFinite(b) THEN
        IF IsZero(a) \/ IsZero(b) THEN Zero(Negative(a) # Negative(b))
        ELSE
            LET g1 == GCD(AbsInt(a[1]), b[2])
                g2 == GCD(AbsInt(b[1]), a[2])
            IN  <<(a[1] \div g1) * (b[1] \div g2), (a[2] \div g2) * (b[2] \div g1)>>
    ELSE IF IsZero(a) \/ IsZero(b) THEN NaN
    ELSE Inf(Negative(a) # Negative(b))

\* a / b as floating-point division: x/0 is +-inf with the sign of x times the
\* sign of the zero, 0/0 is NaN
RDiv(a, b) ==
    IF IsNaN(a) \/ IsNaN(b) THEN NaN
    ELSE IF IsFinite(b) /\ ~IsZero(b) THEN
        IF IsFinite(a)
        THEN RMul(a, IF b[1] > 0 THEN <<b[2], b[1]>> ELSE <<-b[2], -b[1]>>)
        ELSE Inf(Negative(a) # Negative(b))
    ELSE IF IsZero(b) THEN
        IF IsZero(a) THEN NaN ELSE Inf(Negative(a) # Negative(b))
    ELSE                                \* b infinite
        IF IsFinite(a) THEN Zero(Negative(a) # Negative(b)) ELSE NaN

RCube(a) == RMul(RMul(a, a), a)

\* The sign of a - b for values that are not NaN; the two zeros are equal
Cmp(a, b) ==
    IF IsFinite(a) /\ IsFinite(b) THEN
        LET x == Mag(a)
            y == Mag(b)
            g == GCD(x[2], y[2])
        IN  Sign(x[1] * (y[2] \div g) - y[1] * (x[2] \div g))
    ELSE IF IsFinite(a) THEN -b[1]
    ELSE IF IsFinite(b) THEN a[1]
    ELSE Sign(a[1] - b[1])

\* Comparisons as floating point makes them: false whenever a side is NaN
RLt(a, b) == ~IsNaN(a) /\ ~IsNaN(b) /\ Cmp(a, b) < 0
RLe(a, b) == ~IsNaN(a) /\ ~IsNaN(b) /\ Cmp(a, b) <= 0
RGt(a, b) == RLt(b, a)
RGe(a, b) == RLe(b, a)

\* np.abs: the sign bit is cleared
RAbs(a) == <<AbsInt(a[1]), AbsInt(a[2])>>

\* Python's built-in max(a, b) and min(a, b): the first argument unless the
\* second compares greater (smaller)
PyMax(a, b) == IF RGt(b, a) THEN b ELSE a
PyMin(a, b) == IF RLt(b, a) THEN b ELSE a

\* The sum of the values in order, from the first one; 0 for no value
RECURSIVE SumSeq(_)
SumSeq(s) ==
    IF s = <<>> THEN R(0)
    ELSE IF Len(s) = 1 THEN s[1]
    ELSE RAdd(SumSeq(SubSeq(s, 1, Len(s) - 1)), s[Len(s)])

\* The values of s that are not missing
SelectSeqNotNaN(s) == SelectSeq(s, LAMBDA x : ~IsNaN(x))

\* pandas Series.mean(): the sum of the values, a missing one counted as 0,
\* over the number of the values that are not missing; NaN when there is none
Mean(s) ==
    LET count == Len(SelectSeqNotNaN(s))
        filled == [i \in 1..Len(s) |-> IF IsNaN(s[i]) THEN R(0) ELSE s[i]]
    IN  IF count = 0 THEN NaN ELSE RDiv(SumSeq(filled), R(count))

Column(rows, c) == [i \in 1..Len(rows) |-> rows[i][c]]

\* data[column] of a table that has no such column
KeyError(column) == [kind |-> "KeyError", key |-> column]

----------------------------------------------------------------------------
(* Data cleaner: process_data *)

\* A table: the set of its column names, the dtype of its timestamp column
\* ("none" without one) and its rows in order.  A row is a record with the
\* index label of the row (idx) and one field per column; the field of a
\* column the table does not have is NaN and is never read.  A cell of an
\* object timestamp column is a text, a cell of a datetime64 one the number of
\* hours since 2024-01-01 00:00.

\* The texts pd.to_datetime reads, in the order of the hours they stand for
TimestampTexts ==
    <<"2024-01-01 00:00", "2024-01-01 01:00", "2024-01-01 02:00", "2024-01-01 03:00">>

Unparseable == "not a time"

Parseable(text) == \E h \in DOMAIN TimestampTexts : TimestampTexts[h] = text

\* The datetime a parseable text stands for
ParseTimestamp(text) ==
    (CHOOSE h \in DOMAIN TimestampTexts : TimestampTexts[h] = text) - 1

\* Lines 18-19: a timestamp column that is not datetime64 already is parsed
\* by pd.to_datetime, which raises (a ValueError) on a text it cannot read
ConvertTimestamp(t) ==
    IF "timestamp" \in t.cols /\ t.timestamp_dtype # "datetime64[ns]"
    THEN IF \A k \in 1..Len(t.rows) : Parseable(t.rows[k].timestamp)
         THEN [t EXCEPT !.timestamp_dtype = "datetime64[ns]",
                        !.rows = [k \in 1..Len(t.rows) |->
                                    [t.rows[k] EXCEPT !.timestamp =
                                        ParseTimestamp(t.rows[k].timestamp)]]]
         ELSE [kind |-> "ValueError"]
    ELSE t

\* np.interp between (i, col[i]) and (j, col[j]) at position k:
\* slope * (k - i) + col[i]; when that is NaN the same from the other end,
\* slope * (k - j) + col[j]; and when that is NaN too and the two ends are
\* equal, their value
OnLine(col, i, j, k) ==
    LET slope == RDiv(RSub(col[j], col[i]), R(j - i))
        fromleft == RAdd(RMul(slope, R(k - i)), col[i])
        fromright == RAdd(RMul(slope, R(k - j)), col[j])
    IN  IF ~IsNaN(fromleft) THEN fromleft
        ELSE IF ~IsNaN(fromright) THEN fromright
        ELSE IF Cmp(col[i], col[j]) = 0 THEN col[i]
        ELSE NaN

\* The last position before k, and the first after k, that holds a value
\* (0 when there is none)
ValidBefore(col, k) ==
    LET before == {i \in 1..(k - 1) : ~IsNaN(col[i])}
    IN  IF before = {} THEN 0 ELSE CHOOSE p \in before : \A q \in before : q <= p

ValidAfter(col, k) ==
    LET after == {j \in (k + 1)..Len(col) : ~IsNaN(col[j])}
    IN  IF after = {} THEN 0 ELSE CHOOSE p \in after : \A q \in after : p <= q

\* A plausible slip: only the gaps inside the data are filled
\* (limit_area = 'inside'), so a trailing gap stays missing.
InterpolateInsideOnly(col) ==
    [k \in 1..Len(col) |->
        IF ~IsNaN(col[k]) THEN col[k]
        ELSE IF ValidBefore(col, k) = 0 \/ ValidAfter(col, k) = 0 THEN NaN
        ELSE OnLine(col, ValidBefore(col, k), ValidAfter(col, k), k)]

\* A plausible slip: at most one consecutive missing value is filled per call
\* (limit = 1).
InterpolateLimitOne(col) ==
    [k \in 1..Len(col) |->
        IF ~IsNaN(col[k]) THEN col[k]
        ELSE IF ValidBefore(col, k) # k - 1 \/ k = 1 THEN NaN
        ELSE IF ValidAfter(col, k) = 0 THEN col[k - 1]
        ELSE OnLine(col, k - 1, ValidAfter(col, k), k)]

\* DataFrame.interpolate(method='linear') on one column: positions count, not
\* index labels; a gap between two valid values is filled along the line
\* between them, a gap after the last valid value takes that value, and a gap
\* before the first valid value stays missing (limit_direction = 'forward').
Interpolate(col) ==
    [k \in 1..Len(col) |->
        IF ~IsNaN(col[k]) THEN col[k]
        ELSE IF ValidBefore(col, k) = 0 THEN NaN
        ELSE IF ValidAfter(col, k) = 0 THEN col[ValidBefore(col, k)]
        ELSE OnLine(col, ValidBefore(col, k), ValidAfter(col, k), k)]

\* processed_data.interpolate(method='linear'): every float column of the
\* table; a datetime column is left as it is
InterpolateTable(t) ==
    LET floats == t.cols \ {"timestamp"}
        filled == [c \in floats |-> Interpolate(Column(t.rows, c))]
    IN  [t EXCEPT !.rows =
            [k \in 1..Len(t.rows) |->
                [f \in DOMAIN t.rows[k] |->
                    IF f \in floats THEN filled[f][k] ELSE t.rows[k][f]]]]

MaxWindSpeed == 50

\* A plausible slip: the upper limit is not applied
KeepWindSpeedNoUpper(row) == RGe(row.wind_speed, R(0))

\* processed_data[processed_data['wind_speed'] >= 0], then [... <= 50]
KeepWindSpeed(row) ==
    /\ RGe(row.wind_speed, R(0))
    /\ RLe(row.wind_speed, R(MaxWindSpeed))

\* processed_data[processed_data['power_output'] >= 0]
KeepPowerOutput(row) == RGe(row.power_output, R(0))

\* Lines 25-29; processed_data['wind_speed'] raises KeyError on a table
\* without the column
FilterRows(t) ==
    IF "wind_speed" \notin t.cols THEN KeyError("wind_speed")
    ELSE
        LET byspeed == SelectSeq(t.rows, KeepWindSpeed)
        IN  [t EXCEPT !.rows =
                IF "power_output" \in t.cols
                THEN SelectSeq(byspeed, KeepPowerOutput)
                ELSE byspeed]

TurbineArea == 10000

\* 0.5 * air_density * turbine_area * wind_speed ** 3
TheoreticalPower(row) ==
    RMul(RMul(RMul(Q(1, 2), row.air_density), R(TurbineArea)),
         RCube(row.wind_speed))

\* Series.clip(lower, upper): a missing value stays missing
Clip(x, lower, upper) ==
    IF IsNaN(x) THEN NaN
    ELSE IF RLt(x, lower) THEN lower
    ELSE IF RGt(x, upper) THEN upper
    ELSE x

BetzLimit == Q(59, 100)

\* (power_output * 1000) / theoretical_power, clipped to [0, 0.59]
Efficiency(row, tp) ==
    Clip(RDiv(RMul(row.power_output, R(1000)), tp), R(0), BetzLimit)

AddDerived(t) ==
    IF "wind_speed" \in t.cols /\ "air_density" \in t.cols
    THEN
        LET withtp == [k \in 1..Len(t.rows) |->
                         [t.rows[k] EXCEPT !.theoretical_power =
                                               TheoreticalPower(t.rows[k])]]
        IN  IF "power_output" \in t.cols
            THEN [t EXCEPT !.cols = t.cols \cup {"theoretical_power", "efficiency"},
                           !.rows = [k \in 1..Len(withtp) |->
                              [withtp[k] EXCEPT !.efficiency =
                                  Efficiency(withtp[k], withtp[k].theoretical_power)]]]
            ELSE [t EXCEPT !.cols = t.cols \cup {"theoretical_power"},
                           !.rows = withtp]
    ELSE t

\* process_data(data): the table returned, or the error raised on the way
process_data(t) ==
    LET converted == ConvertTimestamp(t)
    IN  IF converted.kind # "table" THEN converted
        ELSE
            LET filtered == FilterRows(InterpolateTable(converted))
            IN  IF filtered.kind # "table" THEN filtered
                ELSE AddDerived(filtered)

----------------------------------------------------------------------------
(* The cleaner's runs: a raw table is cleaned, and the result cleaned again *)

WindSpeedValues == {NaN, R(-12), R(12), R(60)}
PowerOutputValues == {NaN, R(-6000), R(6000)}
AirDensityValues == {NaN, R(1)}

\* A row with index label i: one field per column the model knows
Row(i, ws, po, ad, wd, pa) ==
    [idx |-> i, timestamp |-> NaN, wind_speed |-> ws, power_output |-> po,
     air_density |-> ad, wind_direction |-> wd, pitch_angle |-> pa,
     theoretical_power |-> NaN, efficiency |-> NaN]

RawRow(i, ws, po, ad) == Row(i, ws, po, ad, NaN, NaN)

\* A raw table of n rows with the columns cols, and without a timestamp column
RawTable(n, cols, ws, po, ad) ==
    [kind |-> "table",
     cols |-> cols,
     timestamp_dtype |-> "none",
     rows |-> [i \in 1..n |->
                 RawRow(i,
                        IF "wind_speed" \in cols THEN ws[i] ELSE NaN,
                        IF "power_output" \in cols THEN po[i] ELSE NaN,
                        IF "air_density" \in cols THEN ad[i] ELSE NaN)]]

\* The table t with a timestamp column of the dtype given
WithTimestamp(t, dtype, ts) ==
    [t EXCEPT !.cols = t.cols \cup {"timestamp"},
              !.timestamp_dtype = dtype,
              !.rows = [i \in 1..Len(t.rows) |-> [t.rows[i] EXCEPT !.timestamp = ts[i]]]]

\* The timestamp columns of n rows: one an hour apart as datetimes, the same
\* as texts, and the texts with one that cannot be read
TimestampColumns(n) ==
    {[dtype |-> "datetime64[ns]", cells |-> [i \in 1..n |-> i - 1]],
     [dtype |-> "object", cells |-> [i \in 1..n |-> TimestampTexts[i]]]}
        \cup {[dtype |-> "object",
               cells |-> [i \in 1..n |-> IF i = j THEN Unparseable
                                                 ELSE TimestampTexts[i]]] :
                 j \in 1..n}

OptionalRawColumns == SUBSET {"power_output", "air_density"}

\* The raw tables: a wind_speed column, with or without a power_output column
\* and an air_density column, of at most MaxLen rows; the same with a
\* timestamp column, and tables without the wind_speed column, of at most
\* MaxRows rows
InitClean ==
    /\ pc = "raw"
    /\ \E opt \in OptionalRawColumns :
          \/ \E n \in 0..MaxLen :
                \E ws \in [1..n -> WindSpeedValues],
                   po \in [1..n -> IF "power_output" \in opt
                                   THEN PowerOutputValues ELSE {NaN}],
                   ad \in [1..n -> IF "air_density" \in opt
                                   THEN AirDensityValues ELSE {NaN}] :
                      raw = RawTable(n, {"wind_speed"} \cup opt, ws, po, ad)
          \/ \E n \in 0..MaxRows :
                \E ws \in [1..n -> WindSpeedValues],
                   po \in [1..n -> IF "power_output" \in opt
                                   THEN PowerOutputValues ELSE {NaN}],
                   ad \in [1..n -> IF "air_density" \in opt
                                   THEN AirDensityValues ELSE {NaN}],
                   ts \in TimestampColumns(n) :
                      raw = WithTimestamp(RawTable(n, {"wind_speed"} \cup opt,
                                                   ws, po, ad),
                                          ts.dtype, ts.cells)
          \/ /\ opt # {}
             /\ \E n \in 0..MaxRows :
                   \E po \in [1..n -> IF "power_output" \in opt
                                      THEN PowerOutputValues ELSE {NaN}],
                      ad \in [1..n -> IF "air_density" \in opt
                                      THEN AirDensityValues ELSE {NaN}] :
                         raw = RawTable(n, opt, [i \in 1..n |-> NaN], po, ad)
    /\ once = None
    /\ twice = None
    /\ data = None
    /\ args = None
    /\ out = None

\* process_data(raw): the call returns a table or raises
Clean ==
    /\ pc = "raw"
    /\ once' = process_data(raw)
    /\ pc' = IF process_data(raw).kind = "table" THEN "clean" ELSE "failed"
    /\ UNCHANGED <<raw, twice, data, args, out>>

\* process_data(process_data(raw))
CleanAgain ==
    /\ pc = "clean"
    /\ twice' = process_data(once)
    /\ pc' = "cleaned_twice"
    /\ UNCHANGED <<raw, once, data, args, out>>

NextClean == Clean \/ CleanAgain

SpecClean == InitClean /\ [][NextClean]_vars

----------------------------------------------------------------------------
(* Metrics comparator: calculate_metrics *)

FallbackEfficiency == 35
BetzPercent == 59
HoursPerYear == 8760

\* np.mean(np.abs(data[c] - x))
MeanAbsDeviation(t, c, x) ==
    Mean([i \in 1..Len(t.rows) |-> RAbs(RSub(t.rows[i][c], x))])

\* Python's min(current * total, 59) is the efficiency of the optimized
\* snapshot
OptimizedEfficiency(current, total) == PyMin(RMul(current, total), R(BetzPercent))

\* calculate_metrics(data, optimized_params): the two snapshots, or the
\* KeyError of the first column read that the table does not have (lines 63,
\* 73 and 74)
calculate_metrics(t, params) ==
    IF "power_output" \notin t.cols THEN KeyError("power_output")
    ELSE IF "wind_direction" \notin t.cols THEN KeyError("wind_direction")
    ELSE IF "pitch_angle" \notin t.cols THEN KeyError("pitch_angle")
    ELSE
    LET avg_power == Mean(Column(t.rows, "power_output"))
        efficiency == IF "efficiency" \in t.cols
                      THEN RMul(Mean(Column(t.rows, "efficiency")), R(100))
                      ELSE R(FallbackEfficiency)
        annual_energy == RDiv(RMul(avg_power, R(HoursPerYear)), R(1000))
        yaw_improvement ==
            RAdd(R(1), RMul(Q(3, 1000),
                            MeanAbsDeviation(t, "wind_direction", params.yaw_angle)))
        pitch_improvement ==
            RAdd(R(1), RMul(Q(2, 1000),
                            MeanAbsDeviation(t, "pitch_angle", params.pitch_angle)))
        total_improvement == RMul(yaw_improvement, pitch_improvement)
    IN  [kind |-> "metrics",
         total_improvement |-> total_improvement,
         current |-> [avg_power |-> avg_power,
                      efficiency |-> efficiency,
                      annual_energy |-> annual_energy],
         optimized |-> [avg_power |-> RMul(avg_power, total_improvement),
                        efficiency |-> OptimizedEfficiency(efficiency, total_improvement),
                        annual_energy |-> RMul(annual_energy, total_improvement)]]

\* The comparator's runs: a raw table, with every column the comparator reads
\* or with one of them missing, is cleaned, and the cleaned table is compared
\* under some parameters
MetricsWindSpeeds == {R(0), R(12)}
MetricsPowerOutputs == {R(0), R(6000)}
MetricsAirDensities == {R(1), R(-1)}
MetricsWindDirections == {R(10), R(350)}
MetricsPitchAngles == {R(2)}
MetricsYawParams == {R(10), R(30)}
MetricsPitchParams == {R(0), R(5)}

MetricsColumns == {"power_output", "wind_direction", "pitch_angle"}

InitMetrics ==
    /\ pc = "raw"
    /\ \E n \in 1..MaxRows, hasAD \in BOOLEAN,
          read \in {MetricsColumns} \cup {MetricsColumns \ {c} : c \in MetricsColumns} :
          \E ws \in [1..n -> MetricsWindSpeeds],
             po \in [1..n -> IF "power_output" \in read
                             THEN MetricsPowerOutputs ELSE {NaN}],
             ad \in [1..n -> IF hasAD THEN MetricsAirDensities ELSE {NaN}],
             wd \in [1..n -> IF "wind_direction" \in read
                             THEN MetricsWindDirections ELSE {NaN}],
             pa \in [1..n -> IF "pitch_angle" \in read
                             THEN MetricsPitchAngles ELSE {NaN}] :
                raw = [kind |-> "table",
                       cols |-> {"wind_speed"} \cup read
                                \cup (IF hasAD THEN {"air_density"} ELSE {}),
                       timestamp_dtype |-> "none",
                       rows |-> [i \in 1..n |->
                                   Row(i, ws[i], po[i], ad[i], wd[i], pa[i])]]
    /\ \E y \in MetricsYawParams, p \in MetricsPitchParams :
          args = [yaw_angle |-> y, pitch_angle |-> p]
    /\ once = None
    /\ twice = None
    /\ data = None
    /\ out = None

CalculateMetrics ==
    /\ pc = "clean"
    /\ args # None
    /\ out' = calculate_metrics(once, args)
    /\ pc' = "metrics"
    /\ UNCHANGED <<raw, once, twice, data, args>>

NextMetrics == Clean \/ CalculateMetrics

SpecMetrics == InitMetrics /\ [][NextMetrics]_vars

----------------------------------------------------------------------------
(* Power model: power_model *)

\* np.abs(wind_direction - yaw_angle), and 360 minus it where it exceeds 180
YawMisalignment(wind_direction, yaw_angle) ==
    LET m == RAbs(RSub(wind_direction, yaw_angle))
    IN  IF RGt(m, R(180)) THEN RSub(R(360), m) ELSE m

\* wind_speed ** 3 * 0.5 * air_density * 0.5 * (1 - 0.01 * yaw_misalignment)
\*     * (1 - 0.02 * pitch_adjustment)
RowPower(row, yaw_misalignment, pitch_angle) ==
    LET pitch_adjustment == RAbs(RSub(pitch_angle, row.pitch_angle))
    IN  RMul(RMul(RMul(RMul(RMul(RCube(row.wind_speed), Q(1, 2)), row.air_density),
                       Q(1, 2)),
                  RSub(R(1), RMul(Q(1, 100), yaw_misalignment))),
             RSub(R(1), RMul(Q(2, 100), pitch_adjustment)))

\* data[data['wind_speed'] >= wind_speed_threshold]
Relevant(row, threshold) == RGe(row.wind_speed, threshold)

\* power_model(params, data, wind_speed_threshold): the value returned with
\* the yaw_misalignment column it computed on the way, or the KeyError raised
\* by the first read of a column the dataset does not have.  The early return
\* gives the int 0, the last line a float.
power_model(params, d, threshold) ==
    IF "wind_speed" \notin d.cols THEN KeyError("wind_speed")
    ELSE
        LET relevant_data == SelectSeq(d.rows, LAMBDA row : Relevant(row, threshold))
        IN  IF Len(relevant_data) = 0
            THEN [kind |-> "value", value |-> R(0), int |-> TRUE,
                  yaw_misalignment |-> <<>>]
            ELSE IF "wind_direction" \notin d.cols THEN KeyError("wind_direction")
            ELSE IF "pitch_angle" \notin d.cols THEN KeyError("pitch_angle")
            ELSE IF "air_density" \notin d.cols THEN KeyError("air_density")
            ELSE
                LET mis == [i \in 1..Len(relevant_data) |->
                              YawMisalignment(relevant_data[i].wind_direction,
                                              params[1])]
                    power == [i \in 1..Len(relevant_data) |->
                                RowPower(relevant_data[i], mis[i], params[2])]
                IN  [kind |-> "value",
                     value |-> RNeg(Mean(power)),
                     int |-> FALSE,
                     yaw_misalignment |-> mis]

\* The power model's runs: one call on a dataset with every column
PowerWindSpeeds == {R(2), R(4)}
PowerWindDirections == {R(10), R(350), R(400)}
PowerPitchAngles == {R(-5), R(2)}
PowerYawParams == {R(10), R(-200), R(180), R(355)}
PowerPitchParams == {R(0), R(3)}
Thresholds == {R(3), R(5)}

RequiredColumns == {"wind_speed", "wind_direction", "air_density", "pitch_angle"}

InitPower ==
    /\ pc = "call_power_model"
    /\ \E n \in 0..MaxRows :
          \E ws \in [1..n -> PowerWindSpeeds],
             wd \in [1..n -> PowerWindDirections],
             pa \in [1..n -> PowerPitchAngles] :
                data = [cols |-> RequiredColumns,
                        rows |-> [i \in 1..n |->
                                    Row(i, ws[i], NaN, R(1), wd[i], pa[i])]]
    /\ \E y \in PowerYawParams, p \in PowerPitchParams, th \in Thresholds :
          args = [params |-> <<y, p>>, wind_speed_threshold |-> th]
    /\ raw = None
    /\ once = None
    /\ twice = None
    /\ out = None

PowerModel ==
    /\ pc = "call_power_model"
    /\ out' = power_model(args.params, data, args.wind_speed_threshold)
    /\ pc' = "power_model_returned"
    /\ UNCHANGED <<raw, once, twice, data, args>>

NextPower == PowerModel

SpecPower == InitPower /\ [][NextPower]_vars

----------------------------------------------------------------------------
(* Optimizer: optimize_power *)

\* bounds: (yaw0 - yaw_angle_range, yaw0 + yaw_angle_range) and
\* (max(0, pitch0 - pitch_angle_range), pitch0 + pitch_angle_range)
Bounds(yaw0, pitch0, yaw_angle_range, pitch_angle_range) ==
    [yaw |-> <<RSub(yaw0, yaw_angle_range), RAdd(yaw0, yaw_angle_range)>>,
     pitch |-> <<PyMax(R(0), RSub(pitch0, pitch_angle_range)),
                 RAdd(pitch0, pitch_angle_range)>>]

\* The points of the box the minimizer may end at, as far as the model looks:
\* per coordinate the two bounds, the start moved into the box, and the rows'
\* own values moved into the box (the kinks of the objective)
BoxPoints(d, c, x0c, bound) ==
    {bound[1], bound[2], x0c}
        \cup {Clip(d.rows[i][c], bound[1], bound[2]) : i \in 1..Len(d.rows)}

\* minimize(power_model, initial_params, args=(data, wind_speed_threshold),
\* bounds=bounds, method='L-BFGS-B'), by what the call is relied on for: it
\* rejects a lower bound above an upper bound, moves the start into the box,
\* evaluates the objective there (whose KeyError propagates), and ends at a
\* point of the box whose objective value is not above the value at the moved
\* start.  The set of the results the call may give.
Minimize(initial_params, d, threshold, bounds) ==
    IF RGt(bounds.yaw[1], bounds.yaw[2]) \/ RGt(bounds.pitch[1], bounds.pitch[2])
    THEN {[kind |-> "ValueError"]}
    ELSE
        LET x0 == <<Clip(initial_params[1], bounds.yaw[1], bounds.yaw[2]),
                    Clip(initial_params[2], bounds.pitch[1], bounds.pitch[2])>>
            f0 == power_model(x0, d, threshold)
        IN  IF f0.kind # "value" THEN {f0}
            ELSE
                {[kind |-> "result", x |-> x, fun |-> power_model(x, d, threshold).value] :
                    x \in {y \in BoxPoints(d, "wind_direction", x0[1], bounds.yaw)
                                 \X BoxPoints(d, "pitch_angle", x0[2], bounds.pitch) :
                              \/ y = x0
                              \/ RLe(power_model(y, d, threshold).value, f0.value)}}

\* (optimized_power / initial_power - 1) * 100 if initial_power > 0 else 0
GainPercent(optimized_power, initial_power) ==
    IF RGt(initial_power, R(0))
    THEN [branch |-> "ratio",
          value |-> RMul(RSub(RDiv(optimized_power, initial_power), R(1)), R(100))]
    ELSE [branch |-> "fallback", value |-> R(0)]

\* The optimizer's runs: a dataset, complete or with one required column
\* missing, possibly empty, and the three settings of the call
OptWindSpeeds == {R(2), R(4)}
OptWindDirections == {R(10), R(350)}
OptPitchAngles == {R(-20), R(-5), R(2)}
YawAngleRanges == {R(0), R(15)}
PitchAngleRanges == {R(0), R(10)}

InitOpt ==
    /\ pc = "optimize_power"
    /\ \E n \in 0..MaxRows, cols \in {RequiredColumns} \cup
                                     {RequiredColumns \ {c} : c \in RequiredColumns} :
          \E ws \in [1..n -> OptWindSpeeds],
             wd \in [1..n -> OptWindDirections],
             pa \in [1..n -> OptPitchAngles] :
                data = [cols |-> cols,
                        rows |-> [i \in 1..n |->
                                    Row(i,
                                        IF "wind_speed" \in cols THEN ws[i] ELSE NaN,
                                        NaN,
                                        IF "air_density" \in cols THEN R(1) ELSE NaN,
                                        IF "wind_direction" \in cols THEN wd[i] ELSE NaN,
                                        IF "pitch_angle" \in cols THEN pa[i] ELSE NaN)]]
    /\ \E th \in Thresholds, yr \in YawAngleRanges, pr \in PitchAngleRanges :
          args = [wind_speed_threshold |-> th, yaw_angle_range |-> yr,
                  pitch_angle_range |-> pr]
    /\ raw = None
    /\ once = None
    /\ twice = None
    /\ out = None

\* Lines 57-70: the means, the initial parameters and the bounds
OptimizeStart ==
    /\ pc = "optimize_power"
    /\ IF "wind_direction" \notin data.cols
       THEN /\ out' = [kind |-> "KeyError", key |-> "wind_direction",
                           minimizer_invoked |-> FALSE]
            /\ pc' = "done"
       ELSE IF "pitch_angle" \notin data.cols
       THEN /\ out' = [kind |-> "KeyError", key |-> "pitch_angle",
                           minimizer_invoked |-> FALSE]
            /\ pc' = "done"
       ELSE
            LET avg_wind_direction == Mean(Column(data.rows, "wind_direction"))
                avg_pitch_angle == Mean(Column(data.rows, "pitch_angle"))
            IN  /\ out' = [kind |-> "running",
                           initial_params |-> <<avg_wind_direction, avg_pitch_angle>>,
                           bounds |-> Bounds(avg_wind_direction, avg_pitch_angle,
                                             args.yaw_angle_range,
                                             args.pitch_angle_range)]
                /\ pc' = "minimize"
    /\ UNCHANGED <<raw, once, twice, data, args>>

\* Lines 73-79: the call of the minimizer
OptimizeMinimize ==
    /\ pc = "minimize"
    /\ \E r \in Minimize(out.initial_params, data, args.wind_speed_threshold,
                          out.bounds) :
          IF r.kind = "result"
          THEN /\ out' = [kind |-> "minimized",
                          initial_params |-> out.initial_params,
                          bounds |-> out.bounds,
                          result |-> r]
               /\ pc' = "gain"
          ELSE /\ out' = [kind |-> r.kind, minimizer_invoked |-> TRUE]
               /\ pc' = "done"
    /\ UNCHANGED <<raw, once, twice, data, args>>

\* -x of what power_model returned: the int 0 has no sign to flip
PyNegate(r) == IF r.int THEN r.value ELSE RNeg(r.value)

\* Lines 81-89: the expected gain, and the return
OptimizeGain ==
    /\ pc = "gain"
    /\ LET initial_power ==
              PyNegate(power_model(out.initial_params, data,
                                   args.wind_speed_threshold))
           optimized_power == RNeg(out.result.fun)
           gain == GainPercent(optimized_power, initial_power)
       IN  out' = [kind |-> "returned",
                   minimizer_invoked |-> TRUE,
                   yaw_angle |-> out.result.x[1],
                   pitch_angle |-> out.result.x[2],
                   initial_power |-> initial_power,
                   optimized_power |-> optimized_power,
                   gain_branch |-> gain.branch,
                   power_gain_percent |-> gain.value]
    /\ pc' = "done"
    /\ UNCHANGED <<raw, once, twice, data, args>>

NextOpt == OptimizeStart \/ OptimizeMinimize \/ OptimizeGain

SpecOpt == InitOpt /\ [][NextOpt]_vars

----------------------------------------------------------------------------
(* Properties of the data cleaner, under SpecClean *)

Cleaned == pc \in {"clean", "cleaned_twice"}

RowsOf(t) == {t.rows[k] : k \in 1..Len(t.rows)}

\* C1: every row of the table process_data returns has 0 <= wind_speed <= 50
\* and, when the table has a power_output column, power_output >= 0; a row
\* whose wind_speed or power_output is still missing after interpolation is
\* not kept.
C1_CleanRanges ==
    Cleaned =>
        \A row \in RowsOf(once) :
            /\ ~IsNaN(row.wind_speed)
            /\ Cmp(row.wind_speed, R(0)) >= 0
            /\ Cmp(row.wind_speed, R(50)) <= 0
            /\ "power_output" \in once.cols =>
                    /\ ~IsNaN(row.power_output)
                    /\ Cmp(row.power_output, R(0)) >= 0

\* C1 witness: a table whose first wind_speed is missing (and stays missing
\* after interpolation), with a row above 50 and a missing power_output, was
\* cleaned, and rows with interpolated values were kept.
C1_Witness ==
    /\ pc = "clean"
    /\ "power_output" \in raw.cols
    /\ Len(raw.rows) = 3
    /\ IsNaN(raw.rows[1].wind_speed)
    /\ \E k \in 1..Len(raw.rows) : RGt(raw.rows[k].wind_speed, R(50))
    /\ \E k \in 1..Len(raw.rows) : IsNaN(raw.rows[k].power_output)
    /\ Len(once.rows) >= 1
    /\ Len(once.rows) < Len(raw.rows)

\* C2, as the claim states it: every row of the cleaned table has
\* 0 <= efficiency <= 0.59, also where theoretical_power is zero or
\* air_density is missing.
C2_EfficiencyInRange ==
    (Cleaned /\ "efficiency" \in once.cols) =>
        \A row \in RowsOf(once) :
            /\ RGe(row.efficiency, R(0))
            /\ RLe(row.efficiency, Q(59, 100))

\* C3: cleaning is idempotent: cleaning the cleaned table drops no row, fills
\* no value differently and derives the same theoretical_power and efficiency.
C3_Idempotent == pc = "cleaned_twice" => twice = once

\* C3 witness: a second pass over a table with derived columns, from which the
\* first pass dropped rows, in which it filled a gap, and which still holds a
\* missing value.
C3_Witness ==
    /\ pc = "cleaned_twice"
    /\ "efficiency" \in once.cols
    /\ Len(once.rows) >= 2
    /\ Len(once.rows) < Len(raw.rows)
    /\ \E row \in RowsOf(once) : IsNaN(raw.rows[row.idx].wind_speed)
    /\ \E row \in RowsOf(once) : IsNaN(row.efficiency)
    /\ \E row \in RowsOf(once) : RGt(row.efficiency, R(0))

\* The cell of column c is missing; a timestamp cell never is (the raw tables
\* have a timestamp in every row)
Missing(row, c) == c # "timestamp" /\ IsNaN(row[c])

\* C9, as the claim states it: the cleaned table has no missing value in any
\* column of the input.
C9_NoMissingValues ==
    Cleaned =>
        \A row \in RowsOf(once) : \A c \in raw.cols : ~Missing(row, c)

\* The gap of column c at row i of the raw table is a leading gap: no row at
\* or before it has a value
LeadingGap(c, i) == \A j \in 1..i : Missing(raw.rows[j], c)

\* C9, amended: in the cleaned table wind_speed and power_output have no
\* missing value, and in every other input column exactly the leading gaps
\* stay missing: gaps between values and trailing gaps are filled.
C9_OnlyLeadingGapsRemain ==
    Cleaned =>
        \A row \in RowsOf(once) : \A c \in raw.cols :
            Missing(row, c) <=>
                (c \notin {"wind_speed", "power_output"} /\ LeadingGap(c, row.idx))

\* C9 witness: a kept row still misses its air_density (a leading gap), and
\* another kept row had its trailing air_density gap filled.
C9_Witness ==
    /\ pc = "clean"
    /\ "air_density" \in raw.cols
    /\ \E row \in RowsOf(once) : IsNaN(row.air_density)
    /\ \E row \in RowsOf(once) :
            /\ IsNaN(raw.rows[row.idx].air_density)
            /\ ~IsNaN(row.air_density)
            /\ \A j \in row.idx..Len(raw.rows) : IsNaN(raw.rows[j].air_density)

----------------------------------------------------------------------------
(* Properties of the metrics comparator, under SpecMetrics *)

InPercentRange(x) == RGe(x, R(0)) /\ RLe(x, R(59))

\* C8, as the claim states it: both snapshots calculate_metrics returns for a
\* cleaned dataset have efficiency within [0, 59].
C8_EfficiencyPercentInRange ==
    (pc = "metrics" /\ MetricsColumns \subseteq once.cols) =>
        /\ out.kind = "metrics"
        /\ InPercentRange(out.current.efficiency)
        /\ InPercentRange(out.optimized.efficiency)

----------------------------------------------------------------------------
(* Properties of the power model, under SpecPower *)

\* The shortest distance on the circle between two whole angles
ShortestAngularDistance(a, b) ==
    LET m == AbsInt(a - b) % 360
    IN  IF m > 180 THEN 360 - m ELSE m

\* C10, as the claim states it: for every row that passes the wind-speed
\* filter the yaw misalignment used is the shortest angular distance between
\* wind_direction and yaw_angle, and so lies in [0, 180].
C10_ShortestAngularDistance ==
    (pc = "power_model_returned" /\ out.kind = "value") =>
        LET relevant_data ==
                SelectSeq(data.rows,
                          LAMBDA row : RGe(row.wind_speed, args.wind_speed_threshold))
        IN  \A i \in 1..Len(out.yaw_misalignment) :
                /\ out.yaw_misalignment[i] =
                       R(ShortestAngularDistance(relevant_data[i].wind_direction[1],
                                                 args.params[1][1]))
                /\ RGe(out.yaw_misalignment[i], R(0))
                /\ RLe(out.yaw_misalignment[i], R(180))

----------------------------------------------------------------------------
(* Properties of the optimizer, under SpecOpt *)

CompleteDataset == data.cols = RequiredColumns
ValidDataset == CompleteDataset /\ Len(data.rows) >= 1

\* The box as the specification words it, from the dataset and the settings
Yaw0 == Mean(Column(data.rows, "wind_direction"))
Pitch0 == Mean(Column(data.rows, "pitch_angle"))
YawLow == RSub(Yaw0, args.yaw_angle_range)
YawHigh == RAdd(Yaw0, args.yaw_angle_range)
PitchLow ==
    LET low == RSub(Pitch0, args.pitch_angle_range)
    IN  IF Cmp(low, R(0)) < 0 THEN R(0) ELSE low
PitchHigh == RAdd(Pitch0, args.pitch_angle_range)

InBox ==
    /\ RLe(YawLow, out.yaw_angle) /\ RLe(out.yaw_angle, YawHigh)
    /\ RLe(PitchLow, out.pitch_angle) /\ RLe(out.pitch_angle, PitchHigh)

\* C4, as the claim states it: for any dataset optimize_power returns
\* yaw_angle and pitch_angle within the box, also where the mean pitch_angle
\* is negative.
C4_ReturnsWithinBounds ==
    (pc = "done" /\ ValidDataset) => (out.kind = "returned" /\ InBox)

\* C5, as the claim states it: the objective at the returned parameters is not
\* above the objective at the initial guess, so the gain is not negative when
\* initial_power > 0.
C5_NeverWorseThanStart ==
    (pc = "done" /\ ValidDataset /\ out.kind = "returned") =>
        /\ RLe(RNeg(out.optimized_power), RNeg(out.initial_power))
        /\ RGt(out.initial_power, R(0)) => RGe(out.power_gain_percent, R(0))

\* The threshold is above the wind_speed of every row
AboveEveryRow ==
    \A i \in 1..Len(data.rows) :
        RGt(args.wind_speed_threshold, data.rows[i].wind_speed)

\* power_model returns exactly 0 at every pair of parameters tried
PowerModelIsZero ==
    \A y \in PowerYawParams, p \in PowerPitchParams :
        power_model(<<y, p>>, data, args.wind_speed_threshold)
            = [kind |-> "value", value |-> R(0), int |-> TRUE,
               yaw_misalignment |-> <<>>]

\* optimize_power returned a gain of 0 taken from the fallback branch, with no
\* division
GainFromFallback ==
    /\ out.kind = "returned"
    /\ out.initial_power = R(0)
    /\ out.gain_branch = "fallback"
    /\ out.power_gain_percent = R(0)

\* C6, as the claim states it: when wind_speed_threshold is above every row's
\* wind_speed, power_model returns exactly 0 whatever the parameters are, and
\* optimize_power on that dataset computes a gain of 0 through the fallback.
C6_DegenerateGainIsZero ==
    (pc = "done" /\ CompleteDataset /\ AboveEveryRow) =>
        (PowerModelIsZero /\ GainFromFallback)

\* C7, as the claim states it: on an empty dataset, or one without a required
\* column, optimize_power fails with a DataValidationError before the
\* minimizer is invoked.
C7_ValidationError ==
    (pc = "done" /\ ~ValidDataset) =>
        (out.kind = "DataValidationError" /\ ~out.minimizer_invoked)

====
